---- MODULE Spec2Model ----
(***************************************************************************)
(* Model of the mpibind SPANK plugin (src/mpibind.c): the partition        *)
(* function map_to_domains, the GPU assignment get_gpustring, the option   *)
(* parser parse_option / parse_user_option and the task-launch callback    *)
(* slurm_spank_task_init, as run inside one task's slurmstepd process.     *)
(***************************************************************************)
EXTENDS Integers, Sequences, FiniteSets, TLC

(***************************************************************************)
(* Bounds of the model.                                                    *)
(***************************************************************************)
MaxNp == 10
MaxDoms == 4
MaxNumas == 4
MaxGpus == 3
MaxTasks == 4

(***************************************************************************)
(* Small helpers.                                                          *)
(***************************************************************************)
Min(a, b) == IF a < b THEN a ELSE b

Max(a, b) == IF a > b THEN a ELSE b

RECURSIVE SumTo(_, _)
SumTo(f, n) == IF n = 0 THEN 0 ELSE f[n - 1] + SumTo(f, n - 1)

(***************************************************************************)
(* map_to_domains (mpibind.c:457-482).  The out-parameters are written     *)
(* only on success; on failure the record carries the 0 every caller       *)
(* initialises them with.  ndoms = 0 divides by zero (undefined).          *)
(***************************************************************************)
np_per_dom_mut(i, np_per_dom_ave, np_per_dom_extra) ==
    IF i <= np_per_dom_extra THEN np_per_dom_ave + 1 ELSE np_per_dom_ave

np_per_dom(i, np_per_dom_ave, np_per_dom_extra) ==
    IF i < np_per_dom_extra THEN np_per_dom_ave + 1 ELSE np_per_dom_ave

rank_in_dom_mut(rank, cum_np) == rank <= cum_np

rank_in_dom(rank, cum_np) == rank < cum_np

RECURSIVE map_loop(_, _, _, _, _, _)
map_loop(rank, ave, extra, ndoms, i, cum_np) ==
    IF i >= ndoms
    THEN [rc |-> 1, mapi |-> 0, np_in_dom |-> 0, id_in_dom |-> 0]
    ELSE LET tmp  == np_per_dom(i, ave, extra)
             prev == cum_np
             cum  == cum_np + tmp
         IN  IF rank_in_dom(rank, cum)
             THEN [rc |-> 0, mapi |-> i, np_in_dom |-> tmp,
                   id_in_dom |-> IF tmp = 0 THEN 0 ELSE (rank - prev) % tmp]
             ELSE map_loop(rank, ave, extra, ndoms, i + 1, cum)

map_to_domains(rank, np, ndoms) ==
    map_loop(rank, np \div ndoms, np % ndoms, ndoms, 0, 0)

(***************************************************************************)
(* Topology (hwloc, read-only).  The model's machines are regular trees    *)
(*   Machine > [Group] > NUMANode > Core > PU                              *)
(* with os_index = logical index at every level.  A topology is a record   *)
(*   numas         number of NUMA nodes                                    *)
(*   numasPerGroup NUMA nodes under one Group object (numas: no Group      *)
(*                 level, the enclosing "group" is the Machine, index 0)   *)
(*   coresPerNuma, pusPerCore                                              *)
(*   gpuAnc        for each render GPU, in hwloc_get_next_osdev order, the *)
(*                 os_index of its NUMA ancestor (of the Machine, 0, when  *)
(*                 it hangs off the Machine).  Every object descends from  *)
(*                 the Machine, so the ancestor lookup never yields NULL.  *)
(***************************************************************************)
NumGpus(t) == Len(t.gpuAnc)

\* os_index of the Group (or Machine) enclosing NUMA node n
GroupOfNuma(t, n) == IF t.numasPerGroup >= t.numas THEN 0 ELSE n \div t.numasPerGroup

(***************************************************************************)
(* numagroup[] as slurm_spank_task_init builds it (mpibind.c:840-868):     *)
(* calloc'ed to 0, then written only at the NUMA nodes that own a GPU.     *)
(***************************************************************************)
numagroup_entry_mut(t, n) == GroupOfNuma(t, n)

numagroup_entry(t, n) ==
    IF \E g \in 1 .. NumGpus(t) : t.gpuAnc[g] = n THEN GroupOfNuma(t, n) ELSE 0

build_numagroup(t) == [n \in 0 .. t.numas - 1 |-> numagroup_entry(t, n)]

(***************************************************************************)
(* get_gpustring (mpibind.c:516-631).  gpus_in_numa[n] is modelled as the  *)
(* sequence of the first gpus_per_numa[n] entries of row n, likewise       *)
(* gpus_in_group.  A device id is the running counter gpus.                *)
(***************************************************************************)
\* mpibind.c:527-559: direct ownership, one step per GPU object
RECURSIVE direct_ownership(_, _, _, _, _)
direct_ownership(t, numagroup, g, in_numa, in_group) ==
    IF g >= NumGpus(t)
    THEN [in_numa |-> in_numa, in_group |-> in_group]
    ELSE LET a  == t.gpuAnc[g + 1]
             gr == numagroup[a]
         IN  direct_ownership(t, numagroup, g + 1,
                 [in_numa EXCEPT ![a] = Append(@, g)],
                 [in_group EXCEPT ![gr] = Append(@, g)])

\* mpibind.c:574-577: while(gpus_per_numa[k] == 0 && k < numas) k++;
\* reaching k = numas reads gpus_per_numa[numas], outside the array: -1
RECURSIVE first_numa_with_gpus(_, _, _)
first_numa_with_gpus(in_numa, numas, k) ==
    IF k >= numas THEN -1
    ELSE IF Len(in_numa[k]) = 0 THEN first_numa_with_gpus(in_numa, numas, k + 1)
    ELSE k

worst_source_mut(in_numa, numas) == 0

worst_source(in_numa, numas) == first_numa_with_gpus(in_numa, numas, 0)

\* mpibind.c:561-584: fallback for NUMA nodes without GPUs, in index order,
\* each step seeing the rows the earlier steps filled
RECURSIVE fallback(_, _, _, _, _)
fallback(in_numa, in_group, numagroup, numas, i) ==
    IF i >= numas THEN in_numa
    ELSE IF Len(in_numa[i]) # 0
         THEN fallback(in_numa, in_group, numagroup, numas, i + 1)
    ELSE IF Len(in_group[numagroup[i]]) > 0
         THEN fallback([in_numa EXCEPT ![i] = in_group[numagroup[i]]],
                       in_group, numagroup, numas, i + 1)
    ELSE LET k == worst_source(in_numa, numas)
         IN  IF k = -1 THEN in_numa
             ELSE fallback([in_numa EXCEPT ![i] = in_numa[k]],
                           in_group, numagroup, numas, i + 1)

\* the rows of gpus_in_numa once both passes have run
numa_gpus(t, numagroup) ==
    LET empty == [n \in 0 .. t.numas - 1 |-> <<>>]
        d     == direct_ownership(t, numagroup, 0, empty, empty)
    IN  fallback(d.in_numa, d.in_group, numagroup, t.numas, 0)

NULLSTR == [ok |-> FALSE, devs |-> <<>>]

\* mpibind.c:599-606, case 1: one device for this task
case1_index_mut(mapped_id_in_numa, mapped_np_in_numa, ngpus) ==
    map_to_domains(mapped_np_in_numa - 1, mapped_np_in_numa, ngpus)

case1_index(mapped_id_in_numa, mapped_np_in_numa, ngpus) ==
    map_to_domains(mapped_id_in_numa, mapped_np_in_numa, ngpus)

case1(row, mapped_id_in_numa, mapped_np_in_numa) ==
    LET m == case1_index(mapped_id_in_numa, mapped_np_in_numa, Len(row))
    IN  IF m.rc # 0 THEN NULLSTR
        ELSE [ok |-> TRUE, devs |-> <<row[m.mapi + 1]>>]

\* mpibind.c:607-625, case 2: for every device index i whose owner is this
\* task, str is rebuilt from ALL the devices of the row (j = 0 .. n-1)
RECURSIVE case2(_, _, _, _, _)
case2(row, mapped_id_in_numa, mapped_np_in_numa, i, str) ==
    IF i >= Len(row) THEN str
    ELSE LET m == map_to_domains(i, Len(row), mapped_np_in_numa)
         IN  IF m.rc # 0 THEN NULLSTR
             ELSE IF mapped_id_in_numa = m.mapi
                  THEN case2(row, mapped_id_in_numa, mapped_np_in_numa, i + 1,
                             [ok |-> TRUE, devs |-> row])
                  ELSE case2(row, mapped_id_in_numa, mapped_np_in_numa, i + 1, str)

\* the value returned: NULLSTR for NULL, otherwise the device ids that the
\* "%d" / "%s,%d" formatting joins with commas, in that order
get_gpustring(t, numagroup, lrank, lsize) ==
    LET in_numa == numa_gpus(t, numagroup)
        m       == map_to_domains(lrank, lsize, t.numas)
    IN  IF m.rc # 0 THEN NULLSTR
        ELSE LET row == in_numa[m.mapi]
             IN  IF m.np_in_dom >= Len(row)
                 THEN case1(row, m.id_in_dom, m.np_in_dom)
                 ELSE case2(row, m.id_in_dom, m.np_in_dom, 0, NULLSTR)

(***************************************************************************)
(* C strings are sequences of one-character strings.                       *)
(***************************************************************************)
DigitChars == <<"0", "1", "2", "3", "4", "5", "6", "7", "8", "9">>

isdigit(c) == \E d \in 1 .. 10 : DigitChars[d] = c

DigitVal(c) == (CHOOSE d \in 1 .. 10 : DigitChars[d] = c) - 1

\* the tail of s from position i (1-based) on; s + (i - 1) in C
From(s, i) == SubSeq(s, i, Len(s))

RECURSIVE LeadingDigits(_)
LeadingDigits(s) ==
    IF s # <<>> /\ isdigit(s[1]) THEN 1 + LeadingDigits(Tail(s)) ELSE 0

RECURSIVE DecimalValue(_)
DecimalValue(s) ==
    IF s = <<>> THEN 0
    ELSE 10 * DecimalValue(SubSeq(s, 1, Len(s) - 1)) + DigitVal(s[Len(s)])

\* strtol (s, &endptr, 10): optional sign, then digits; without a digit the
\* value is 0 and endptr = s.  (No white space occurs in the model's strings.)
strtol(s) ==
    LET signed == s # <<>> /\ s[1] \in {"-", "+"}
        body   == IF signed THEN Tail(s) ELSE s
        n      == LeadingDigits(body)
        v      == DecimalValue(SubSeq(body, 1, n))
    IN  IF n = 0 THEN [val |-> 0, endptr |-> s]
        ELSE [val |-> IF signed /\ s[1] = "-" THEN 0 - v ELSE v,
              endptr |-> From(body, n + 1)]

\* asprintf (&str, "%u", n) for n >= 0
RECURSIVE utoa(_)
utoa(n) ==
    IF n < 10 THEN <<DigitChars[n + 1]>>
    ELSE utoa(n \div 10) \o <<DigitChars[(n % 10) + 1]>>

\* hwloc_bitmap_set_range (bitmap, begin, end)
hwloc_bitmap_set_range(bits, begin, end) == bits \cup (begin .. end)

(***************************************************************************)
(* parse_option (mpibind.c:118-221).  g is the record of the globals the   *)
(* parser writes: disabled, verbose, cpubits, level_size.  The result is   *)
(* the new globals, the return code rc and whether exit (0) was called.    *)
(* cpubits is [null, bits]: the NULL pointer or an allocated bitmap.       *)
(***************************************************************************)
NULLBITS == [null |-> TRUE, bits |-> {}]

\* mpibind.c:180: level_size += end - start + 1;
range_count_mut(start, end) == end - start

range_count(start, end) == end - start + 1

\* mpibind.c:148-204: the loop over the items of a range token.  range_item
\* is one turn of the loop, s being the result of its first strtol.
RECURSIVE range_loop(_, _, _, _)
range_item(s, coreobjs, bits, lsize) ==
    LET start  == s.val
        endptr == s.endptr
        fail   == [rc |-> -1, bits |-> bits, level_size |-> lsize]
    IN  IF start < 0 THEN fail
        ELSE IF start > coreobjs THEN fail
        ELSE IF endptr # <<>>
        THEN IF endptr[1] = "-"
             THEN LET opt2 == Tail(endptr)
                  IN  IF opt2 # <<>>
                      THEN LET e    == strtol(opt2)
                               end  == e.val
                               ep2  == e.endptr
                           IN  IF end < 0 THEN fail
                               ELSE IF end > coreobjs THEN fail
                               ELSE IF start > end THEN fail
                               ELSE range_loop(
                                        IF ep2 # <<>> THEN Tail(ep2) ELSE ep2,
                                        coreobjs,
                                        hwloc_bitmap_set_range(bits, start, end),
                                        lsize + range_count(start, end))
                      ELSE fail
             ELSE IF endptr[1] = ","
             THEN range_loop(Tail(endptr), coreobjs, bits \cup {start}, lsize + 1)
             ELSE fail
        ELSE [rc |-> 0, bits |-> bits \cup {start}, level_size |-> lsize + 1]

range_loop(opt, coreobjs, bits, lsize) ==
    IF opt = <<>> THEN [rc |-> 0, bits |-> bits, level_size |-> lsize]
    ELSE CHOOSE r \in {range_item(s, coreobjs, b, l) :
                          s \in {strtol(opt)}, b \in {bits}, l \in {lsize}} : TRUE

Str_on == <<"o", "n">>

Str_off == <<"o", "f", "f">>

Str_vv == <<"v", "v">>

Str_v == <<"v">>

Str_verbose == <<"v", "e", "r", "b", "o", "s", "e">>

Str_w == <<"w">>

Str_help == <<"h", "e", "l", "p">>

parse_option(g, opt, remote, coreobjs) ==
    LET done(h) == [g |-> h, rc |-> 0, exit |-> FALSE]
    IN  IF opt = Str_on THEN done([g EXCEPT !.disabled = 0])
        ELSE IF opt = Str_off THEN done([g EXCEPT !.disabled = 1])
        ELSE IF opt = Str_vv THEN done([g EXCEPT !.verbose = 3])
        ELSE IF opt = Str_v \/ opt = Str_verbose THEN done([g EXCEPT !.verbose = 2])
        ELSE IF opt = Str_w THEN done([g EXCEPT !.verbose = 1])
        ELSE IF opt # <<>> /\ isdigit(opt[1])
        THEN LET r == range_loop(opt, coreobjs, {}, 0)
             IN  [g |-> [g EXCEPT !.cpubits = [null |-> FALSE, bits |-> r.bits],
                                  !.level_size = r.level_size],
                  rc |-> r.rc, exit |-> FALSE]
        ELSE IF opt = Str_help /\ ~remote THEN [g |-> g, rc |-> 0, exit |-> TRUE]
        ELSE [g |-> g, rc |-> -1, exit |-> FALSE]

(***************************************************************************)
(* parse_user_option (mpibind.c:223-245): the tokens between the dots are  *)
(* parsed left to right; the first failing token ends the parse with -1.   *)
(* NULLARG stands for arg == NULL.                                         *)
(***************************************************************************)
NULLARG == <<"\\0">>

\* position of the first "." of s, 0 when there is none (strstr)
RECURSIVE strstr_dot(_, _)
strstr_dot(s, i) ==
    IF i > Len(s) THEN 0 ELSE IF s[i] = "." THEN i ELSE strstr_dot(s, i + 1)

\* what parse_user_option does with the result r of one parse_option call:
\* the token was the last one (rest = <<>> and last), or more follow
RECURSIVE parse_tokens(_, _, _, _)
after_token(r, last, rest, remote, coreobjs) ==
    IF r.exit THEN r
    ELSE IF r.rc # 0 THEN [r EXCEPT !.rc = -1]
    ELSE IF last THEN r
    ELSE parse_tokens(r.g, rest, remote, coreobjs)

parse_tokens(g, opt, remote, coreobjs) ==
    LET dot == strstr_dot(opt, 1)
    IN  CHOOSE res \in
            {after_token(r, dot = 0, From(opt, dot + 1), remote, coreobjs) :
                r \in {parse_option(g, IF dot # 0 THEN SubSeq(opt, 1, dot - 1)
                                       ELSE opt, remote, coreobjs)}} : TRUE

parse_user_option(g, arg, remote, coreobjs) ==
    IF arg = NULLARG THEN [g |-> g, rc |-> 0, exit |-> FALSE]
    ELSE parse_tokens(g, arg, remote, coreobjs)

(***************************************************************************)
(* Topology queries (hwloc).  PUs are numbered 0 .. NumPUs-1 in tree order *)
(* and a cpuset is the set of the PU numbers an object covers.             *)
(***************************************************************************)
NumCores(t) == t.numas * t.coresPerNuma

NumPUs(t) == t.numas * t.coresPerNuma * t.pusPerCore

HasGroupLevel(t) == t.numasPerGroup < t.numas

NumGroups(t) == (t.numas + t.numasPerGroup - 1) \div t.numasPerGroup

\* the object types of the levels, root first
Levels(t) ==
    IF HasGroupLevel(t) THEN <<"Machine", "Group", "NUMANode", "Core", "PU">>
    ELSE <<"Machine", "NUMANode", "Core", "PU">>

NumObjsOfType(t, type) ==
    CASE type = "Machine"  -> 1
      [] type = "Group"    -> NumGroups(t)
      [] type = "NUMANode" -> t.numas
      [] type = "Core"     -> NumCores(t)
      [] type = "PU"       -> NumPUs(t)

\* hwloc_topology_get_depth
hwloc_topology_get_depth(t) == Len(Levels(t))

\* hwloc_get_nbobjs_by_depth, depth counted from 0
hwloc_get_nbobjs_by_depth(t, depth) == NumObjsOfType(t, Levels(t)[depth + 1])

PUsOfNumas(t, lo, hi) ==
    (lo * t.coresPerNuma * t.pusPerCore) ..
        ((hi + 1) * t.coresPerNuma * t.pusPerCore - 1)

\* obj->cpuset of the i-th object of a type
ObjCpuset(t, type, i) ==
    CASE type = "Machine"  -> 0 .. NumPUs(t) - 1
      [] type = "Group"    ->
             PUsOfNumas(t, i * t.numasPerGroup,
                        Min(t.numas, (i + 1) * t.numasPerGroup) - 1)
      [] type = "NUMANode" -> PUsOfNumas(t, i, i)
      [] type = "Core"     -> (i * t.pusPerCore) .. ((i + 1) * t.pusPerCore - 1)
      [] type = "PU"       -> {i}

(***************************************************************************)
(* Bitmap helpers (hwloc_bitmap_first / _next / _singlify).                *)
(***************************************************************************)
hwloc_bitmap_first(set) ==
    IF set = {} THEN -1 ELSE CHOOSE i \in set : \A j \in set : i <= j

hwloc_bitmap_next(set, prev) == hwloc_bitmap_first({j \in set : j > prev})

hwloc_bitmap_singlify(set) ==
    IF set = {} THEN {} ELSE {hwloc_bitmap_first(set)}

(***************************************************************************)
(* decimate_cpuset (mpibind.c:435-452): walks the bits in ascending order, *)
(* spares the first num_threads of them and clears the others.             *)
(***************************************************************************)
spare_bit_mut(thread) == thread >= 0

spare_bit(thread) == thread > 0

RECURSIVE decimate_loop(_, _, _)
decimate_loop(cpuset, i, thread) ==
    LET kept == IF spare_bit(thread) THEN cpuset ELSE cpuset \ {i}
        left == IF spare_bit(thread) THEN thread - 1 ELSE thread
        nxt  == hwloc_bitmap_next(kept, i)
    IN  IF nxt > 0 THEN decimate_loop(kept, nxt, left) ELSE kept

decimate_cpuset(cpuset, nthreads) ==
    IF Cardinality(cpuset) <= nthreads THEN cpuset
    ELSE decimate_loop(cpuset, hwloc_bitmap_first(cpuset), nthreads)

(***************************************************************************)
(* get_gomp_str (mpibind.c:488-510): the first num_threads members of the  *)
(* cpuset, "%d" joined by commas; NULL (here UNSET) for an empty cpuset.   *)
(***************************************************************************)
UNSET == <<"\\0unset">>

RECURSIVE gomp_loop(_, _, _, _)
gomp_loop(cpuset, i, j, str) ==
    IF i # -1 /\ j > 0
    THEN gomp_loop(cpuset, hwloc_bitmap_next(cpuset, i), j - 1,
                   IF str = UNSET THEN utoa(i) ELSE str \o <<",">> \o utoa(i))
    ELSE str

get_gomp_str(cpuset, nthreads) ==
    gomp_loop(cpuset, hwloc_bitmap_first(cpuset), nthreads, UNSET)

\* the comma-joined "%d" list get_gpustring prints (mpibind.c:606, 618-620)
RECURSIVE JoinIds(_)
JoinIds(ids) ==
    IF Len(ids) = 1 THEN utoa(ids[1])
    ELSE utoa(ids[1]) \o <<",">> \o JoinIds(Tail(ids))

\* spank_setenv (sp, var, val, overwrite)
spank_setenv(e, var, val, overwrite) ==
    IF e[var] # UNSET /\ overwrite = 0 THEN e ELSE [e EXCEPT ![var] = val]

(***************************************************************************)
(* Unit selection (mpibind.c:776-822).  The result is the cpusets[] array  *)
(* (NULLSET for an element calloc left NULL), the new level_size and       *)
(* num_cores, and oob = an element was written past the allocation.        *)
(***************************************************************************)
NULLSET == {-1}

\* the cores named by the bitmap that exist, in ascending order
RECURSIVE selected_cores(_, _, _)
selected_cores(t, bits, i) ==
    IF i >= NumCores(t) THEN <<>>
    ELSE IF i \in bits
         THEN <<ObjCpuset(t, "Core", i)>> \o selected_cores(t, bits, i + 1)
         ELSE selected_cores(t, bits, i + 1)

shrink_level_size_mut(lsize, ncores) == lsize

shrink_level_size(lsize, ncores) == IF ncores < lsize THEN ncores ELSE lsize

select_explicit(t, bits, lsize) ==
    LET written == selected_cores(t, bits, 0)
        n       == Len(written)
    IN  [cpusets    |-> [i \in 1 .. Max(lsize, n) |->
                            IF i <= n THEN written[i] ELSE NULLSET],
         level_size |-> shrink_level_size(lsize, n),
         num_cores  |-> n,
         oob        |-> n > lsize]

\* mpibind.c:804: if (level_size >= local_threads) break;
level_suffices_mut(nbobjs, lthreads) == nbobjs > lthreads

level_suffices(nbobjs, lthreads) == nbobjs >= lthreads

\* mpibind.c:802-808: the first depth with enough objects, else the deepest
RECURSIVE search_depth_mut(_, _, _)
search_depth_mut(t, lthreads, depth) ==
    IF depth >= hwloc_topology_get_depth(t) THEN depth - 1
    ELSE IF hwloc_get_nbobjs_by_depth(t, depth) <= lthreads THEN depth
    ELSE search_depth_mut(t, lthreads, depth + 1)

RECURSIVE search_depth(_, _, _)
search_depth(t, lthreads, depth) ==
    IF depth >= hwloc_topology_get_depth(t) THEN depth - 1
    ELSE IF level_suffices(hwloc_get_nbobjs_by_depth(t, depth), lthreads) THEN depth
    ELSE search_depth(t, lthreads, depth + 1)

select_by_depth(t, lthreads) ==
    LET depth == search_depth(t, lthreads, 0)
        n     == hwloc_get_nbobjs_by_depth(t, depth)
    IN  [cpusets    |-> [i \in 1 .. n |-> ObjCpuset(t, Levels(t)[depth + 1], i - 1)],
         level_size |-> n,
         num_cores  |-> NumCores(t),
         oob        |-> FALSE]

(***************************************************************************)
(* The slice of cpusets[] a task ORs together (mpibind.c:886, 920-926).    *)
(* num_pus_per_task is a float; the model computes the two casts exactly:  *)
(* (int32_t) (local_rank * num_pus_per_task) with the unclamped quotient,  *)
(* and (int32_t) num_pus_per_task after the clamp to 1.0.                  *)
(***************************************************************************)
slice_index_mut(lrank, lsize_, lsz) == lrank

slice_index(lrank, lsize_, lsz) == (lrank * lsize_) \div lsz

slice_width_mut(lsize_, lsz) ==
    IF lsize_ < lsz THEN 1 ELSE (lsize_ + lsz - 1) \div lsz

slice_width(lsize_, lsz) == IF lsize_ < lsz THEN 1 ELSE lsize_ \div lsz

\* the indices i of the loop for (i = index; i < index + width; i++)
slice_indices(lrank, lsize_, lsz) ==
    slice_index(lrank, lsize_, lsz) ..
        (slice_index(lrank, lsize_, lsz) + slice_width(lsize_, lsz) - 1)

\* OMP_NUM_THREADS the task derives when the user set none (mpibind.c:896-900)
derived_threads_mut(ncores, lsz) == ncores \div lsz

derived_threads(ncores, lsz) ==
    IF ncores \div lsz = 0 THEN 1 ELSE ncores \div lsz

\* mpibind.c:874-880: device assignment was tried and returned NULL
gpu_failed_mut(gpus, gs) == FALSE

gpu_failed(gpus, gs) == gpus > 0 /\ ~gs.ok

\* mpibind.c:943-946
reduce_cpuset(cpuset, nthreads) ==
    IF nthreads = 1 THEN hwloc_bitmap_singlify(cpuset)
    ELSE decimate_cpuset(cpuset, nthreads)

(***************************************************************************)
(* str2int and job_is_exclusive (mpibind.c:359-395).                       *)
(***************************************************************************)
str2int(str) ==
    LET r == strtol(str)
    IN  IF r.endptr # <<>> /\ r.endptr[1] # "("  THEN -1 ELSE r.val

job_is_exclusive(cpus_per_node, lsize_) ==
    IF cpus_per_node = UNSET THEN 0
    ELSE IF str2int(cpus_per_node) < 0 THEN 0
    ELSE IF str2int(cpus_per_node) >= lsize_ THEN 1 ELSE 0

(***************************************************************************)
(* State.  The C globals and the locals of slurm_spank_task_init keep      *)
(* their names; mtd_args / mtd_ret hold one direct call of map_to_domains. *)
(*   pc       the SPANK callback slurmstepd runs next                      *)
(*   env      the task's environment                                       *)
(*   optrc    what the last parse_user_option returned                     *)
(*   optarg   the argument of one direct call of parse_user_option         *)
(*   rawset   cpuset before the reduction (mpibind.c:924-926)              *)
(*   cpubind  the cpuset handed to hwloc_set_cpubind                       *)
(*   taskrc   what slurm_spank_task_init returned                          *)
(* The uint32_t counters stay far below 2^32 within the bounds (the thread *)
(* strings tried are non-negative), so no arithmetic wraps.                *)
(***************************************************************************)
VARIABLES mtd_args, mtd_ret,
          topology, optarg, local_rank, local_size,
          gpus_in_numa, gpustr,
          pc, disabled, enabled, verbose, cpubits, level_size,
          local_threads, num_cores, num_threads, rank,
          env, optrc, cpusets, rawset, cpuset, cpubind, taskrc

vars == <<mtd_args, mtd_ret, topology, optarg, local_rank, local_size,
          gpus_in_numa, gpustr,
          pc, disabled, enabled, verbose, cpubits, level_size,
          local_threads, num_cores, num_threads, rank,
          env, optrc, cpusets, rawset, cpuset, cpubind, taskrc>>

mtd_vars == <<mtd_args, mtd_ret>>

gpu_vars == <<gpus_in_numa, gpustr>>

opt_vars == <<disabled, verbose, cpubits, level_size>>

bind_vars == <<local_threads, num_cores, cpusets, rawset, cpuset, cpubind, taskrc>>

NoCall == [rank |-> -1, np |-> -1, ndoms |-> -1]

NoRet == [rc |-> -1, mapi |-> -1, np_in_dom |-> -1, id_in_dom |-> -1]

NoTopology ==
    [numas |-> 0, numasPerGroup |-> 0, coresPerNuma |-> 0, pusPerCore |-> 0,
     gpuAnc |-> <<>>]

\* gpustr before get_gpustring has been called
NotRun == [ok |-> FALSE, devs |-> <<-1>>]

\* no cpuset bound yet
NOBIND == {-2}

NoEnv ==
    [OMP_NUM_THREADS |-> UNSET, GOMP_CPU_AFFINITY |-> UNSET,
     CUDA_VISIBLE_DEVICES |-> UNSET, SLURM_JOB_CPUS_PER_NODE |-> UNSET]

\* the GPU lists in enumeration order: non-decreasing NUMA ancestors
GpuLists(numas, maxGpus) ==
    {a \in UNION {[1 .. n -> 0 .. numas - 1] : n \in 0 .. maxGpus} :
        \A i \in 1 .. Len(a) - 1 : a[i] <= a[i + 1]}

\* the static initialisers of the globals (mpibind.c:73-84)
InitGlobals ==
    /\ disabled = 0
    /\ enabled = 1
    /\ verbose = 0
    /\ cpubits = NULLBITS
    /\ level_size = 0
    /\ local_threads = 0
    /\ num_cores = 0
    /\ num_threads = 0
    /\ rank = 0

InitLocals ==
    /\ gpus_in_numa = <<>>
    /\ gpustr = NotRun
    /\ optrc = 0
    /\ cpusets = <<>>
    /\ rawset = {}
    /\ cpuset = {}
    /\ cpubind = NOBIND
    /\ taskrc = 0

(***************************************************************************)
(* SpecMap: one call of map_to_domains on arguments drawn from the bounds. *)
(***************************************************************************)
InitMap ==
    /\ optarg = NULLARG
    /\ mtd_args \in [rank : 0 .. MaxNp, np : 0 .. MaxNp, ndoms : 1 .. MaxDoms]
    /\ mtd_ret = NoRet
    /\ topology = NoTopology
    /\ local_rank = 0
    /\ local_size = 0
    /\ pc = "idle"
    /\ env = NoEnv
    /\ InitGlobals
    /\ InitLocals

MapToDomains ==
    /\ mtd_args # NoCall
    /\ mtd_ret = NoRet
    /\ mtd_ret' = map_to_domains(mtd_args.rank, mtd_args.np, mtd_args.ndoms)
    /\ UNCHANGED <<mtd_args, topology, optarg, local_rank, local_size, gpu_vars, pc,
                   opt_vars, enabled, num_threads, rank, env, optrc, bind_vars>>

NextMap == MapToDomains

SpecMap == InitMap /\ [][NextMap]_vars

(***************************************************************************)
(* SpecGpu: one call of get_gpustring, as slurm_spank_task_init makes it   *)
(* (mpibind.c:874-875), on a topology with at least one GPU.  local_rank   *)
(* comes from the environment and may be no rank of this node.             *)
(***************************************************************************)
GpuTopologies ==
    {[numas |-> n, numasPerGroup |-> k, coresPerNuma |-> 1, pusPerCore |-> 1,
      gpuAnc |-> a] :
        n \in 1 .. MaxNumas, k \in 1 .. MaxNumas, a \in GpuLists(MaxNumas, MaxGpus)}

InitGpu ==
    /\ optarg = NULLARG
    /\ mtd_args = NoCall
    /\ mtd_ret = NoRet
    /\ topology \in {t \in GpuTopologies :
                        /\ t.numasPerGroup <= t.numas
                        /\ NumGpus(t) >= 1
                        /\ \A g \in 1 .. NumGpus(t) : t.gpuAnc[g] < t.numas}
    /\ local_size \in 1 .. MaxTasks
    /\ local_rank \in 0 .. local_size
    /\ pc = "idle"
    /\ env = NoEnv
    /\ InitGlobals
    /\ InitLocals

GetGpustring ==
    /\ pc = "idle"
    /\ topology # NoTopology
    /\ gpustr = NotRun
    /\ LET numagroup == build_numagroup(topology)
       IN  /\ gpus_in_numa' = numa_gpus(topology, numagroup)
           /\ gpustr' = get_gpustring(topology, numagroup, local_rank, local_size)
    /\ UNCHANGED <<mtd_vars, topology, optarg, local_rank, local_size, pc,
                   opt_vars, enabled, num_threads, rank, env, optrc, bind_vars>>

NextGpu == GetGpustring

SpecGpu == InitGpu /\ [][NextGpu]_vars

(***************************************************************************)
(* SpecParse: one call of parse_user_option on a string made of one        *)
(* unit-range token, on a node whose online PU count the topology gives.   *)
(***************************************************************************)
MaxTokLen == 4

RangeChars == {"0", "1", "3", "-", ",", "x"}

\* the strings of at most MaxTokLen characters that start with a digit
RangeTokens ==
    {s \in UNION {[1 .. n -> RangeChars] : n \in 1 .. MaxTokLen} : isdigit(s[1])}

ParseTopologies ==
    {[numas |-> 1, numasPerGroup |-> 1, coresPerNuma |-> c, pusPerCore |-> p,
      gpuAnc |-> <<>>] : c \in 1 .. 2, p \in 1 .. 2}

InitParse ==
    /\ mtd_args = NoCall
    /\ mtd_ret = NoRet
    /\ topology \in ParseTopologies
    /\ optarg \in RangeTokens
    /\ local_rank = 0
    /\ local_size = 0
    /\ pc = "parse"
    /\ env = NoEnv
    /\ InitGlobals
    /\ InitLocals

\* parse_user_option (mpibind.c:223-245) as the option callback calls it
ParseUserOption ==
    /\ pc = "parse"
    /\ \E r \in {parse_user_option(
                    [disabled |-> disabled, verbose |-> verbose,
                     cpubits |-> cpubits, level_size |-> level_size],
                    optarg, TRUE, NumPUs(topology))} :
           /\ disabled' = r.g.disabled
           /\ verbose' = r.g.verbose
           /\ cpubits' = r.g.cpubits
           /\ level_size' = r.g.level_size
           /\ optrc' = r.rc
    /\ pc' = "parsed"
    /\ UNCHANGED <<mtd_vars, topology, optarg, local_rank, local_size, gpu_vars,
                   enabled, num_threads, rank, env, bind_vars>>

NextParse == ParseUserOption

SpecParse == InitParse /\ [][NextParse]_vars

(***************************************************************************)
(* Spec: the callbacks slurmstepd runs for one task, in order:             *)
(*   slurm_spank_init, the --mpibind option callback (when the option was  *)
(*   given), slurm_spank_init_post_opt, slurm_spank_user_init and          *)
(*   slurm_spank_task_init (get_remote_env, then the binding).             *)
(***************************************************************************)
NodeNumas == 2
NodeCoresPerNuma == 2
NodePusPerCore == 2
NodeGpus == 1

NodeTopologies ==
    {[numas |-> n, numasPerGroup |-> k, coresPerNuma |-> c, pusPerCore |-> p,
      gpuAnc |-> a] :
        n \in 1 .. NodeNumas, k \in 1 .. NodeNumas, c \in 1 .. NodeCoresPerNuma,
        p \in 1 .. NodePusPerCore, a \in GpuLists(NodeNumas, NodeGpus)}

\* the option strings tried for --mpibind=... and for MPIBIND
OptionStrings ==
    { <<"v", "v">>,
      <<"o", "f", "f">>,
      <<"w", ".", "0", "-", "2">>,
      <<"0", ",", "2">>,
      <<"3">>,
      <<"o", "f", "f", ".", "b", "a", "d">>,
      <<"v", ".", "1", "-", "0">>,
      <<"0", "-", "1", ",", "9", "9">> }

\* the values tried for OMP_NUM_THREADS
ThreadStrings == { UNSET, <<"0">>, <<"1">>, <<"2">> }

\* the values tried for SLURM_JOB_CPUS_PER_NODE
CpusPerNodeStrings == { UNSET, <<"8">>, <<"1">>, <<"8", "(", "x", "2", ")">>,
                        <<"4", ",", "8">>,
                        <<"8", "(", "x", "2", ")", ",", "4">> }

Init ==
    /\ optarg = NULLARG
    /\ mtd_args = NoCall
    /\ mtd_ret = NoRet
    /\ topology \in {t \in NodeTopologies :
                        /\ t.numasPerGroup <= t.numas
                        /\ \A g \in 1 .. NumGpus(t) : t.gpuAnc[g] < t.numas}
    /\ local_rank = 0
    /\ local_size = 0
    /\ pc = "spank_init"
    /\ env \in {[NoEnv EXCEPT !.OMP_NUM_THREADS = o,
                               !.SLURM_JOB_CPUS_PER_NODE = c] :
                     o \in ThreadStrings, c \in CpusPerNodeStrings}
    /\ InitGlobals
    /\ InitLocals

\* slurm_spank_init (mpibind.c:639-668), remote.  av is the plugin's
\* argument list from plugstack.conf: only "mpibind=off" has an effect.
slurm_spank_init ==
    /\ pc = "spank_init"
    /\ \E off \in BOOLEAN : disabled' = IF off THEN 1 ELSE disabled
    /\ pc' = "options"
    /\ UNCHANGED <<mtd_vars, topology, optarg, local_rank, local_size, gpu_vars,
                   enabled, verbose, cpubits, level_size, num_threads, rank,
                   env, optrc, bind_vars>>

\* the callback of the --mpibind option (mpibind.c:102-109, 223-245), remote
OptionCallback ==
    /\ pc = "options"
    /\ \E arg \in OptionStrings \cup {NULLARG} :
       \E r \in {parse_user_option(
                    [disabled |-> disabled, verbose |-> verbose,
                     cpubits |-> cpubits, level_size |-> level_size],
                    arg, TRUE, NumPUs(topology))} :
           /\ disabled' = r.g.disabled
           /\ verbose' = r.g.verbose
           /\ cpubits' = r.g.cpubits
           /\ level_size' = r.g.level_size
           /\ optrc' = r.rc
    /\ pc' = "post_opt"
    /\ UNCHANGED <<mtd_vars, topology, optarg, local_rank, local_size, gpu_vars,
                   enabled, num_threads, rank, env, bind_vars>>

\* slurm_spank_init_post_opt (mpibind.c:670-676), remote: returns 0.  It
\* also runs when --mpibind was not given.
slurm_spank_init_post_opt ==
    /\ pc \in {"options", "post_opt"}
    /\ pc' = "user_init"
    /\ UNCHANGED <<mtd_vars, topology, optarg, local_rank, local_size, gpu_vars,
                   opt_vars, enabled, num_threads, rank, env, optrc, bind_vars>>

\* slurm_spank_user_init (mpibind.c:683-728), remote
slurm_spank_user_init ==
    /\ pc = "user_init"
    /\ \E batch \in BOOLEAN :
         enabled' = IF batch THEN 0
                    ELSE IF job_is_exclusive(env.SLURM_JOB_CPUS_PER_NODE,
                                             level_size) = 0 THEN 0
                    ELSE 1
    /\ pc' = "task_init"
    /\ UNCHANGED <<mtd_vars, topology, optarg, local_rank, local_size, gpu_vars,
                   opt_vars, num_threads, rank, env, optrc, bind_vars>>

\* get_remote_env, the MPIBIND part (mpibind.c:336-342)
get_remote_env_options(g, mpibind, coreobjs) ==
    IF mpibind = UNSET THEN [g |-> g, rc |-> 0, exit |-> FALSE]
    ELSE parse_user_option(g, mpibind, TRUE, coreobjs)

\* slurm_spank_task_init, first part (mpibind.c:744-750): get_remote_env
\* (mpibind.c:284-345), whose return value is dropped, then the
\* enabled / disabled test.  The items and variables read are inputs.
slurm_spank_task_init_env ==
    /\ pc = "task_init"
    /\ IF disabled # 0
       THEN /\ pc' = "done"
            /\ UNCHANGED <<local_rank, local_size, opt_vars, num_threads, rank,
                           optrc>>
       ELSE \E task_id \in 0 .. 1, mpibind \in OptionStrings \cup {UNSET} :
            \E r \in {get_remote_env_options(
                         [disabled |-> disabled,
                          verbose |-> IF task_id # 0 THEN 0 ELSE verbose,
                          cpubits |-> cpubits, level_size |-> level_size],
                         mpibind, NumPUs(topology))} :
            \E lsz \in 1 .. MaxTasks : \E lrank \in 0 .. lsz :
                  /\ rank' = task_id
                  /\ local_rank' = lrank
                  /\ local_size' = lsz
                  /\ num_threads' =
                         IF env.OMP_NUM_THREADS = UNSET THEN 0
                         ELSE strtol(env.OMP_NUM_THREADS).val
                  /\ disabled' = r.g.disabled
                  /\ verbose' = r.g.verbose
                  /\ cpubits' = r.g.cpubits
                  /\ level_size' = r.g.level_size
                  /\ optrc' = r.rc
                  /\ pc' = IF enabled = 0 \/ r.g.disabled # 0
                           THEN "done" ELSE "binding"
    /\ UNCHANGED <<mtd_vars, topology, optarg, gpu_vars, enabled, env, bind_vars>>

\* the locals and results of the second part of slurm_spank_task_init
\* (mpibind.c:756-998) for the current globals
TaskBinding ==
    LET lthreads == local_size * (IF num_threads # 0 THEN num_threads ELSE 1)
        explicit == ~cpubits.null /\ cpubits.bits # {}
        sel      == IF explicit
                    THEN select_explicit(topology, cpubits.bits, level_size)
                    ELSE select_by_depth(topology, lthreads)
        gpus     == NumGpus(topology)
        numagroup == build_numagroup(topology)
        gs       == IF gpus > 0
                    THEN get_gpustring(topology, numagroup, local_rank, local_size)
                    ELSE NotRun
        nthr     == IF num_threads = 0
                    THEN derived_threads(sel.num_cores, local_size)
                    ELSE num_threads
        env1     == IF num_threads = 0
                    THEN spank_setenv(env, "OMP_NUM_THREADS", utoa(nthr), 0)
                    ELSE env
        idx      == slice_indices(local_rank, sel.level_size, local_size)
        badread  == \E i \in idx : \/ i + 1 > Len(sel.cpusets)
                                   \/ sel.cpusets[i + 1] = NULLSET
        raw      == IF badread THEN {} ELSE UNION {sel.cpusets[i + 1] : i \in idx}
        final    == reduce_cpuset(raw, nthr)
        gomp     == get_gomp_str(final, nthr)
        env2     == IF gomp # UNSET
                    THEN spank_setenv(env1, "GOMP_CPU_AFFINITY", gomp, 1)
                    ELSE env1
        env3     == IF gpus > 0 /\ gs.ok
                    THEN spank_setenv(env2, "CUDA_VISIBLE_DEVICES", JoinIds(gs.devs), 1)
                    ELSE env2
    IN  [lthreads |-> lthreads, sel |-> sel, gpus |-> gpus,
         in_numa |-> IF gpus > 0 THEN numa_gpus(topology, numagroup) ELSE <<>>,
         gs |-> gs, nthr |-> nthr, env1 |-> env1, badread |-> badread,
         raw |-> raw, final |-> final, env3 |-> env3]

\* slurm_spank_task_init, second part (mpibind.c:752-998).  Outcomes:
\*   - an element of cpusets[] is written or read outside the array, or a
\*     NULL element is read: undefined behaviour; pc = "undefined" stands
\*     for every outcome and the variables then mean nothing;
\*   - get_gpustring returned NULL: return (ESPANK_ERROR) at line 878;
\*   - otherwise the cpuset is bound and the variables exported.
slurm_spank_task_init_bind ==
    /\ pc = "binding"
    /\ \E b \in {TaskBinding} :
           /\ local_threads' = b.lthreads
           /\ IF b.sel.oob
              THEN /\ pc' = "undefined"
                   /\ UNCHANGED <<level_size, num_cores, cpusets, gpu_vars,
                                  num_threads, env, rawset, cpuset, cpubind,
                                  taskrc>>
              ELSE /\ level_size' = b.sel.level_size
                   /\ num_cores' = b.sel.num_cores
                   /\ cpusets' = b.sel.cpusets
                   /\ gpus_in_numa' = b.in_numa
                   /\ gpustr' = b.gs
                   /\ IF gpu_failed(b.gpus, b.gs)
                      THEN /\ pc' = "done"
                           /\ taskrc' = -1
                           /\ UNCHANGED <<num_threads, env, rawset, cpuset,
                                          cpubind>>
                      ELSE /\ num_threads' = b.nthr
                           /\ IF b.badread
                              THEN /\ pc' = "undefined"
                                   /\ env' = b.env1
                                   /\ UNCHANGED <<rawset, cpuset, cpubind, taskrc>>
                              ELSE /\ pc' = "done"
                                   /\ rawset' = b.raw
                                   /\ cpuset' = b.final
                                   /\ cpubind' = b.final
                                   /\ env' = b.env3
                                   /\ taskrc' = 0
    /\ UNCHANGED <<mtd_vars, topology, optarg, local_rank, local_size, disabled,
                   enabled, verbose, cpubits, rank, optrc>>

Next ==
    \/ slurm_spank_init
    \/ OptionCallback
    \/ slurm_spank_init_post_opt
    \/ slurm_spank_user_init
    \/ slurm_spank_task_init_env
    \/ slurm_spank_task_init_bind

Spec == Init /\ [][Next]_vars

(***************************************************************************)
(* Reference partition, written from the documented contract: the first    *)
(* total mod domainCount buckets hold one item more than the others.       *)
(***************************************************************************)
RefSize(total, domainCount, d) ==
    (total \div domainCount) + (IF d < total % domainCount THEN 1 ELSE 0)

RefStart(total, domainCount, d) ==
    d * (total \div domainCount) + Min(d, total % domainCount)

\* the ranks map_to_domains places in domain d
RanksInDomain(np, ndoms, d) ==
    {r \in 0 .. np - 1 : LET m == map_to_domains(r, np, ndoms)
                         IN  m.rc = 0 /\ m.mapi = d}

BucketCount(np, ndoms, d) == Cardinality(RanksInDomain(np, ndoms, d))

\* C1: for every total >= 0 and domainCount > 0 the bucket sizes assigned by
\* map_to_domains to domains 0..domainCount-1 sum to total and no two of them
\* differ by more than 1; the size a call reports is the size of its bucket.
C1_Balance ==
    mtd_args # NoCall =>
        LET np    == mtd_args.np
            ndoms == mtd_args.ndoms
            cnt   == [d \in 0 .. ndoms - 1 |-> BucketCount(np, ndoms, d)]
        IN  /\ SumTo(cnt, ndoms) = np
            /\ \A d1, d2 \in 0 .. ndoms - 1 : cnt[d1] - cnt[d2] <= 1
            /\ (mtd_ret # NoRet /\ mtd_ret.rc = 0) =>
                   mtd_ret.np_in_dom = cnt[mtd_ret.mapi]

C1_Witness ==
    /\ mtd_args = [rank |-> 3, np |-> 10, ndoms |-> 3]
    /\ mtd_ret = [rc |-> 0, mapi |-> 0, np_in_dom |-> 4, id_in_dom |-> 3]

\* C2: for every index with 0 <= index < total the call succeeds and returns
\* the bucket whose cumulative range contains index, that bucket's size, and
\* a position with 0 <= position < size; (9, 10, 3) gives domain 2, position 2.
C2_Result ==
    (mtd_ret # NoRet /\ mtd_args.rank < mtd_args.np) =>
        LET index == mtd_args.rank
            total == mtd_args.np
            dc    == mtd_args.ndoms
        IN  /\ mtd_ret.rc = 0
            /\ mtd_ret.mapi \in 0 .. dc - 1
            /\ RefStart(total, dc, mtd_ret.mapi) <= index
            /\ index < RefStart(total, dc, mtd_ret.mapi + 1)
            /\ mtd_ret.np_in_dom = RefSize(total, dc, mtd_ret.mapi)
            /\ mtd_ret.id_in_dom = index - RefStart(total, dc, mtd_ret.mapi)
            /\ 0 <= mtd_ret.id_in_dom
            /\ mtd_ret.id_in_dom < mtd_ret.np_in_dom
            /\ (mtd_args = [rank |-> 9, np |-> 10, ndoms |-> 3] =>
                   mtd_ret.mapi = 2 /\ mtd_ret.id_in_dom = 2)

C2_Witness ==
    /\ mtd_args = [rank |-> 9, np |-> 10, ndoms |-> 3]
    /\ mtd_ret = [rc |-> 0, mapi |-> 2, np_in_dom |-> 3, id_in_dom |-> 2]

(***************************************************************************)
(* Device reconciliation, written from the documented contract.            *)
(***************************************************************************)
\* tasks of this node mapped to the same NUMA domain as local_rank
MyNuma == map_to_domains(local_rank, local_size, topology.numas)

RECURSIVE OwnedBy(_, _, _, _)
OwnedBy(row, tasksInDomain, position, i) ==
    IF i > Len(row) THEN <<>>
    ELSE IF map_to_domains(i - 1, Len(row), tasksInDomain).mapi = position
         THEN <<row[i]>> \o OwnedBy(row, tasksInDomain, position, i + 1)
         ELSE OwnedBy(row, tasksInDomain, position, i + 1)

GpuCallDone == gpustr # NotRun /\ local_rank < local_size

\* C3: when devicesInDomain > tasksInDomain, a task's device list is exactly
\* the devices whose DomainPartitioner owner is the task's position, in
\* ascending order (so every device has one owner), and it is not empty.
C3_Original ==
    (GpuCallDone /\ Len(gpus_in_numa[MyNuma.mapi]) > MyNuma.np_in_dom) =>
        /\ gpustr.ok
        /\ gpustr.devs # <<>>
        /\ gpustr.devs = OwnedBy(gpus_in_numa[MyNuma.mapi], MyNuma.np_in_dom,
                                 MyNuma.id_in_dom, 1)

\* C4: when devicesInDomain <= tasksInDomain, the task gets exactly one
\* device id, taken from its domain's device list, and every device of the
\* domain is the device of at least one task mapped to that domain.
C4_OneDevice ==
    (GpuCallDone /\ Len(gpus_in_numa[MyNuma.mapi]) <= MyNuma.np_in_dom) =>
        LET row       == gpus_in_numa[MyNuma.mapi]
            numagroup == build_numagroup(topology)
        IN  /\ gpustr.ok
            /\ Len(gpustr.devs) = 1
            /\ \E j \in 1 .. Len(row) : row[j] = gpustr.devs[1]
            /\ \A j \in 1 .. Len(row) :
                   \E r \in 0 .. local_size - 1 :
                       /\ map_to_domains(r, local_size, topology.numas).mapi
                              = MyNuma.mapi
                       /\ get_gpustring(topology, numagroup, r, local_size).devs
                              = <<row[j]>>

C4_Witness ==
    /\ GpuCallDone
    /\ topology.numas = 2
    /\ local_size = 4
    /\ local_rank = 1
    /\ gpus_in_numa[0] = <<0, 1>>
    /\ gpustr = [ok |-> TRUE, devs |-> <<1>>]

\* C5: after the fallback pass every NUMA domain index in [0, numaCount) has
\* a device list of length >= 1 (the topology has at least one device).
C5_EveryNumaHasDevice ==
    (gpustr # NotRun /\ NumGpus(topology) >= 1) =>
        /\ DOMAIN gpus_in_numa = 0 .. topology.numas - 1
        /\ \A n \in 0 .. topology.numas - 1 : Len(gpus_in_numa[n]) >= 1

\* the "take whatever you can get" branch has run: NUMA 0 had no device and
\* the group it is looked up under (group 0) had none either
C5_Witness ==
    /\ gpustr # NotRun
    /\ topology.numas = 4
    /\ topology.numasPerGroup = 2
    /\ topology.gpuAnc = <<2, 3>>
    /\ gpus_in_numa = [n \in 0 .. 3 |-> IF n = 3 THEN <<1>> ELSE <<0>>]

(***************************************************************************)
(* Claims about slurm_spank_task_init (Spec).                              *)
(***************************************************************************)
\* the task went through the whole binding: cpuset bound, variables exported
Bound == pc = "done" /\ cpubind # NOBIND

\* the explicit-range path was taken (mpibind.c:776)
ExplicitRange == ~cpubits.null /\ cpubits.bits # {}

\* the n lowest members of a set
Lowest(set, n) == {x \in set : Cardinality({y \in set : y < x}) < n}

\* C6: at the end of CpusetBuilder the final unit-set has exactly 1 member
\* when threadsPerTask = 1, and otherwise min(threadsPerTask, rawCardinality)
\* members, namely the lowest-numbered threadsPerTask members of the raw set.
C6_Reduction ==
    Bound =>
        /\ num_threads = 1 => Cardinality(cpuset) = 1
        /\ num_threads # 1 =>
               /\ Cardinality(cpuset) = Min(num_threads, Cardinality(rawset))
               /\ cpuset = Lowest(rawset, num_threads)
        /\ cpuset \subseteq rawset
        /\ cpubind = cpuset

C6_Witness ==
    /\ Bound
    /\ num_threads = 2
    /\ Cardinality(rawset) = 4
    /\ cpuset = {0, 1}

\* union of the pool entries with (0-based) index in lo .. hi
PoolUnion(lo, hi) == UNION {cpusets[i + 1] : i \in lo .. hi}

\* C7 as stated: share = levelSize / localTaskCount clamped up to 1.0, and
\* the raw unit-set is the union of the pool entries with index in
\* [floor(localRank * share), floor(localRank * share) + ceil(share)),
\* clipped to the pool bounds.
C7_Original ==
    (Bound /\ local_rank < local_size) =>
        LET start == IF level_size < local_size THEN local_rank
                     ELSE (local_rank * level_size) \div local_size
            width == IF level_size < local_size THEN 1
                     ELSE (level_size + local_size - 1) \div local_size
        IN  rawset = PoolUnion(Max(start, 0), Min(start + width, level_size) - 1)

\* C7 (amended): for levelSize >= 1 and localRank < localTaskCount, with
\* share = levelSize / localTaskCount, the raw unit-set is the union of the
\* pool entries with index in [floor(localRank * share),
\* floor(localRank * share) + max(1, floor(share))), the start index being
\* computed from the unclamped share; levelSize = 8, localTaskCount = 4 gives
\* task 0 units [0,1] and task 3 units [6,7].
C7_Slice ==
    (Bound /\ local_rank < local_size) =>
        LET start == (local_rank * level_size) \div local_size
            width == Max(1, level_size \div local_size)
        IN  /\ level_size >= 1
            /\ 0 <= start
            /\ start + width <= level_size
            /\ rawset = PoolUnion(start, start + width - 1)
            /\ (level_size = 8 /\ local_size = 4 /\ local_rank = 0) =>
                   rawset = cpusets[1] \cup cpusets[2]
            /\ (level_size = 8 /\ local_size = 4 /\ local_rank = 3) =>
                   rawset = cpusets[7] \cup cpusets[8]

C7_Witness ==
    /\ Bound
    /\ level_size = 8
    /\ local_size = 4
    /\ local_rank = 3
    /\ rawset = {6, 7}

\* a step of the binding part of slurm_spank_task_init that ran to the end
BindStep == pc = "binding" /\ pc' = "done" /\ cpubind' # NOBIND

\* C8 as stated: when OMP_NUM_THREADS is unset on entry the task exports
\* max(1, totalCoresOnNode / localTaskCount), totalCoresOnNode being the
\* number of cores of the node whether or not an explicit unit range was
\* given; when it is set on entry it is not changed.
C8_Original ==
    [][BindStep =>
          IF env.OMP_NUM_THREADS = UNSET
          THEN env'.OMP_NUM_THREADS =
                   utoa(Max(1, NumCores(topology) \div local_size))
          ELSE env'.OMP_NUM_THREADS = env.OMP_NUM_THREADS]_vars

\* C8 (amended): when OMP_NUM_THREADS is unset on entry the task exports
\* max(1, cores / localTaskCount), where cores is the number of cores of the
\* node when no explicit unit range was given and the number of cores of the
\* node that the explicit range names when one was given; when it is set on
\* entry it is not changed.
C8_OmpExport ==
    [][BindStep =>
          LET cores == IF ExplicitRange
                       THEN Cardinality(cpubits.bits \cap (0 .. NumCores(topology) - 1))
                       ELSE NumCores(topology)
          IN  IF env.OMP_NUM_THREADS = UNSET
              THEN env'.OMP_NUM_THREADS = utoa(Max(1, cores \div local_size))
              ELSE env'.OMP_NUM_THREADS = env.OMP_NUM_THREADS]_vars

\* the export was derived from an explicit range naming 3 of the 4 cores
\* ("3" is not among the values OMP_NUM_THREADS starts with)
C8_Witness ==
    /\ Bound
    /\ ExplicitRange
    /\ NumCores(topology) = 4
    /\ num_cores = 3
    /\ local_size = 1
    /\ env.OMP_NUM_THREADS = <<"3">>

\* C9 as stated: when device assignment fails for a task, only device
\* assignment is aborted; the unit binding is still computed and applied and
\* the thread-affinity variable is still exported.
C9_Original ==
    (pc = "done" /\ gpustr = NULLSTR) =>
        /\ cpubind # NOBIND
        /\ env.GOMP_CPU_AFFINITY # UNSET

\* C9 (amended): when device assignment fails for a task (the partition call
\* fails because the local rank is not below the local task count),
\* slurm_spank_task_init returns an error at once: no unit binding is
\* applied and none of OMP_NUM_THREADS, GOMP_CPU_AFFINITY and
\* CUDA_VISIBLE_DEVICES is exported.
C9_FailureAbortsBinding ==
    [][(pc = "binding" /\ gpustr' = NULLSTR) =>
          /\ local_rank >= local_size
          /\ pc' = "done"
          /\ taskrc' = -1
          /\ cpubind' = NOBIND
          /\ env' = env
          /\ env'.GOMP_CPU_AFFINITY = UNSET
          /\ env'.CUDA_VISIBLE_DEVICES = UNSET]_vars

C9_Witness ==
    /\ pc = "done"
    /\ gpustr = NULLSTR
    /\ taskrc = -1
    /\ NumGpus(topology) = 1
    /\ local_rank = local_size
    /\ cpubind = NOBIND

\* C10: when an option string is rejected (parse_user_option returns -1), no
\* token of it, and no item of a range token, has changed the disabled flag,
\* the verbosity or the explicit unit range (cpubits, level_size).
C10_Original ==
    [][((pc = "options" \/ (pc = "task_init" /\ disabled = 0))
            /\ pc' # pc /\ pc' # "user_init" /\ optrc' = -1) =>
          /\ disabled' = disabled
          /\ verbose' = (IF pc = "task_init" /\ rank' # 0 THEN 0 ELSE verbose)
          /\ cpubits' = cpubits
          /\ level_size' = level_size]_vars

(***************************************************************************)
(* Claims about the unit selection (Spec).                                 *)
(***************************************************************************)
\* cpusets[] has been built (mpibind.c:776-822 ran without writing past it)
PoolBuilt == cpusets # <<>>

\* C11 as stated: the pool size is never smaller than the number of units
\* required (tasksLocal x threadsPerTask) unless an explicit range was given.
C11_Original ==
    (PoolBuilt /\ ~ExplicitRange) => level_size >= local_threads

\* C11 (amended): without an explicit range, the pool size is never smaller
\* than the number of units required unless the deepest topology level (the
\* processing units) has fewer objects than required, in which case the
\* pool size is the number of processing units of the node.
C11_PoolSize ==
    (PoolBuilt /\ ~ExplicitRange) =>
        \/ level_size >= local_threads
        \/ /\ NumPUs(topology) < local_threads
           /\ level_size = NumPUs(topology)

C11_Witness ==
    /\ Bound
    /\ ~ExplicitRange
    /\ NumPUs(topology) = 2
    /\ local_threads = 4
    /\ level_size = 2

\* the depth the documented search chooses for `need` units
ShallowestDepth(t, need) ==
    LET ok == {d \in 0 .. hwloc_topology_get_depth(t) - 1 :
                  hwloc_get_nbobjs_by_depth(t, d) >= need}
    IN  IF ok = {} THEN hwloc_topology_get_depth(t) - 1
        ELSE CHOOSE d \in ok : \A e \in ok : d <= e

\* C14: without an explicit range the chosen depth is the shallowest depth
\* whose object count is >= tasksLocal x threadsPerTask (threadsPerTask = 1
\* when unspecified), or the deepest depth if there is none; the pool is
\* every object of that depth in enumeration order and levelSize its count.
C14_DepthSearch ==
    [][(pc = "binding" /\ ~ExplicitRange) =>
          LET need == local_size * (IF num_threads = 0 THEN 1 ELSE num_threads)
              d    == ShallowestDepth(topology, need)
              n    == hwloc_get_nbobjs_by_depth(topology, d)
          IN  /\ local_threads' = need
              /\ level_size' = n
              /\ cpusets' = [i \in 1 .. n |->
                                ObjCpuset(topology, Levels(topology)[d + 1], i - 1)]]_vars

\* 4 units needed on a node of 2 NUMA nodes, 4 cores, 8 PUs: the core level
C14_Witness ==
    /\ Bound
    /\ ~ExplicitRange
    /\ topology.numas = 2
    /\ NumCores(topology) = 4
    /\ NumPUs(topology) = 8
    /\ local_threads = 4
    /\ level_size = 4
    /\ cpusets = <<{0, 1}, {2, 3}, {4, 5}, {6, 7}>>

\* C16: whenever the topology has at least one unit, the pool size handed to
\* CpusetBuilder is >= 1, on the depth-search path and on the explicit-range
\* path alike.
C16_Original == PoolBuilt => level_size >= 1

\* C17: when levelSize >= localTaskCount the raw pool-index slices of any two
\* distinct local ranks are disjoint, and the task's raw unit-set is the
\* union of the pool entries of its own slice.
C17_DisjointSlices ==
    (Bound /\ local_rank < local_size /\ level_size >= local_size) =>
        /\ \A r1, r2 \in 0 .. local_size - 1 :
               r1 # r2 =>
                   slice_indices(r1, level_size, local_size)
                       \cap slice_indices(r2, level_size, local_size) = {}
        /\ rawset = UNION {cpusets[i + 1] :
                              i \in slice_indices(local_rank, level_size, local_size)}

C17_Witness ==
    /\ Bound
    /\ level_size = 4
    /\ local_size = 3
    /\ local_rank = 2
    /\ rawset = cpusets[3]

\* C18: for levelSize >= 1 and localRank in [0, localTaskCount) every pool
\* index the slice loop reads lies in [0, levelSize), also when
\* levelSize < localTaskCount, so the read is defined; and on the
\* explicit-range path the entries written never exceed the allocation.
C18_InBounds ==
    /\ (pc = "binding" /\ ExplicitRange) =>
           Len(selected_cores(topology, cpubits.bits, 0)) <= level_size
    /\ (PoolBuilt /\ level_size >= 1 /\ local_rank < local_size) =>
           /\ slice_indices(local_rank, level_size, local_size)
                  \subseteq 0 .. level_size - 1
           /\ slice_indices(local_rank, level_size, local_size) # {}
           /\ pc # "undefined"
    /\ (pc = "undefined") => (level_size = 0 \/ local_rank >= local_size)

\* oversubscribed explicit range: 2 cores for 4 tasks, the last rank
C18_Witness ==
    /\ Bound
    /\ ExplicitRange
    /\ level_size = 2
    /\ local_size = 4
    /\ local_rank = 3
    /\ rawset = cpusets[2]

(***************************************************************************)
(* Claims about the exclusivity check (Spec).                              *)
(***************************************************************************)
\* the integer a descriptor starts with
LeadingInt(desc) == DecimalValue(SubSeq(desc, 1, LeadingDigits(desc)))

Combined(desc) == \E i \in 1 .. Len(desc) : desc[i] = ","

\* C12 as stated: if the per-node allocated-CPU descriptor is absent or a
\* comma-joined combined form, the task-launch step applies no binding and
\* exports none of OMP_NUM_THREADS, GOMP_CPU_AFFINITY, CUDA_VISIBLE_DEVICES;
\* a plain integer or an N(xK) form is read as the integer N.
C12_Original ==
    [][LET desc == env.SLURM_JOB_CPUS_PER_NODE
       IN  /\ (pc \in {"task_init", "binding"}
                  /\ (desc = UNSET \/ Combined(desc)))
                  => (cpubind' = NOBIND /\ env' = env /\ pc' = "done")
           /\ (pc = "user_init" /\ enabled' = 1)
                  => (desc # UNSET /\ LeadingInt(desc) >= level_size)]_vars

(***************************************************************************)
(* Claims about the device fallback (SpecGpu).                             *)
(***************************************************************************)
RECURSIVE Ascending(_)
Ascending(S) ==
    IF S = {} THEN <<>>
    ELSE LET m == CHOOSE x \in S : \A y \in S : x <= y
         IN  <<m>> \o Ascending(S \ {m})

\* the devices NUMA node n owns directly
DirectRow(t, n) == Ascending({g \in 0 .. NumGpus(t) - 1 : t.gpuAnc[g + 1] = n})

\* the devices under the group with index grp
GroupAggregate(t, grp) ==
    Ascending({g \in 0 .. NumGpus(t) - 1 : GroupOfNuma(t, t.gpuAnc[g + 1]) = grp})

\* the documented fallback, NUMA node by NUMA node in index order
RECURSIVE Borrowed(_, _, _)
Borrowed(t, rows, i) ==
    IF i >= t.numas THEN rows
    ELSE IF DirectRow(t, i) # <<>> THEN Borrowed(t, rows, i + 1)
    ELSE IF GroupAggregate(t, GroupOfNuma(t, i)) # <<>>
         THEN Borrowed(t, [rows EXCEPT ![i] = GroupAggregate(t, GroupOfNuma(t, i))],
                       i + 1)
    ELSE LET have == {k \in 0 .. t.numas - 1 : rows[k] # <<>>}
         IN  IF have = {} THEN Borrowed(t, rows, i + 1)
             ELSE Borrowed(t, [rows EXCEPT ![i] =
                                   rows[CHOOSE k \in have : \A l \in have : k <= l]],
                           i + 1)

\* C13 as stated: a NUMA domain without devices of its own borrows the device
\* list aggregated at its own enclosing group; only if that list is empty
\* does it borrow the list of the lowest-indexed NUMA domain that has a
\* device at that moment.
C13_Original ==
    (gpustr # NotRun /\ NumGpus(topology) > 0) =>
        gpus_in_numa =
            Borrowed(topology, [n \in 0 .. topology.numas - 1 |-> DirectRow(topology, n)], 0)

(***************************************************************************)
(* Claims about the unit-range token (SpecParse).                          *)
(***************************************************************************)
IsInt(s) == s # <<>> /\ \A i \in 1 .. Len(s) : isdigit(s[i])

\* <int> or <int>-<int>, endpoints in [0, coreobjs], start <= end
WellFormedItem(s, coreobjs) ==
    \/ IsInt(s) /\ DecimalValue(s) <= coreobjs
    \/ \E k \in 1 .. Len(s) :
          LET a == SubSeq(s, 1, k - 1)
              b == SubSeq(s, k + 1, Len(s))
          IN  /\ s[k] = "-"
              /\ IsInt(a)
              /\ IsInt(b)
              /\ DecimalValue(a) <= DecimalValue(b)
              /\ DecimalValue(b) <= coreobjs

\* a comma-joined combination of well-formed items
RECURSIVE WellFormed(_, _)
WellFormed(s, coreobjs) ==
    IF \E k \in 1 .. Len(s) : s[k] = ","
    THEN LET k == CHOOSE k \in 1 .. Len(s) :
                      s[k] = "," /\ \A j \in 1 .. k - 1 : s[j] # ","
         IN  /\ WellFormedItem(SubSeq(s, 1, k - 1), coreobjs)
             /\ WellFormed(SubSeq(s, k + 1, Len(s)), coreobjs)
    ELSE WellFormedItem(s, coreobjs)

\* C15 as stated: a unit-range token is accepted only if it is <int>,
\* <int>-<int> or a comma-joined combination of those with every endpoint
\* within [0, onlineUnitCount] and start <= end; every other token starting
\* with a digit makes the parsing of the option string fail.
C15_Original ==
    (pc = "parsed") => ((optrc = 0) <=> WellFormed(optarg, NumPUs(topology)))

====
